---- MODULE Spec2Model ----
(***************************************************************************)
(* Model of src/ui/app.js: the fetch client (TTL cache, in-flight          *)
(* de-duplication, prefix invalidation) and the customer page built on it. *)
(*                                                                         *)
(* One step of the model is one browser task: an event handler or a        *)
(* network response, run to completion together with the promise           *)
(* continuations (microtasks) it makes ready.                              *)
(***************************************************************************)
EXTENDS Integers, Sequences, FiniteSets, TLC

VARIABLES
  now,       \* the reading of Date.now(), in milliseconds
  ticks,     \* how many times the clock has advanced (bounds the model)
  cache,     \* const cache = new Map():    cacheKey -> [value, expires]
  inflight,  \* const inflight = new Map(): cacheKey -> promise (index in reqs)
  reqs,      \* the promises `req` still reachable: pending, or left in inflight
  calls,     \* the apiFetch calls whose promise is still pending, in call order
  settled,   \* of the calls settled in the latest step, those kept for the history
  view,      \* what each view of the customer page shows
  hyd,       \* the invocations of hydrateCustomerPage awaiting their Promise.all
  btn,       \* the `disabled` attribute of the two action buttons
  unhandled, \* whether a handler's promise has rejected with nothing to catch it
  reevalKeys,\* the cacheKey of the POST of each triggerReeval invocation
  lastReeval,\* history, where it is kept, of the latest triggerReeval invocation
  clicks,    \* how many clicks the user has made (bounds the model)
  event,     \* the task that made the latest step
  input,     \* the arguments of the function under study, when one is studied
  output,    \* what that function returned for them
  deb        \* a debounced function: its delay, its timer and what it has done

\* the state of the fetch client and of the page
progVars == <<now, ticks, cache, inflight, reqs, calls, settled,
              view, hyd, btn, unhandled, reevalKeys, lastReeval,
              clicks, event>>

vars == <<progVars, input, output, deb>>

(***************************************************************************)
(* Bounds of the model.                                                    *)
(***************************************************************************)
MaxCalls == 2
MaxTicks == 2
MaxClicks == 2
MaxPageTicks == 1
MaxIdLen == 2

(***************************************************************************)
(* Program constants.                                                      *)
(***************************************************************************)
CACHE_TTL_customers == 60000
CACHE_TTL_health   == 30000
CACHE_TTL_history  == 300000
CACHE_TTL_licenses == 120000
CACHE_TTL_devices  == 120000
CACHE_TTL_alerts   == 60000
TTL_analytics      == 120000
TTL_pstn           == 120000
TTL_cdr            == 120000
TTL_platform_status == 60000

(***************************************************************************)
(* Cache keys are strings in the code. A key is modelled as the sequence   *)
(* of its parts: the resource prefix up to and including the colon, then   *)
(* the characters of the customer identifier, so that startsWith is the    *)
(* prefix relation on sequences.                                           *)
(***************************************************************************)
StartsWith(k, prefix) ==
  /\ Len(prefix) <= Len(k)
  /\ SubSeq(k, 1, Len(prefix)) = prefix

Customers == { <<"a">>, <<"a", "b">> }

\* a key that leaves the customer out
CacheKeyOfResourceOnly(resource, key) == <<resource>>

CacheKeyOf(resource, key) == <<resource>> \o key

\* the (cacheKey, ttl) pairs of the loaders
loadCustomers           == [cacheKey |-> <<"customers">>, ttl |-> CACHE_TTL_customers]
loadCustomerHealth(key) == [cacheKey |-> CacheKeyOf("health:", key), ttl |-> CACHE_TTL_health]
loadHealthHistory(key)  == [cacheKey |-> CacheKeyOf("history:", key), ttl |-> CACHE_TTL_history]
loadLicenses(key)       == [cacheKey |-> CacheKeyOf("licenses:", key), ttl |-> CACHE_TTL_licenses]
loadDevices(key)        == [cacheKey |-> CacheKeyOf("devices:", key), ttl |-> CACHE_TTL_devices]
loadAlerts(key)         == [cacheKey |-> CacheKeyOf("alerts:", key), ttl |-> CACHE_TTL_alerts]
loadAnalytics(key)      == [cacheKey |-> CacheKeyOf("analytics:", key), ttl |-> TTL_analytics]
loadPstn(key)           == [cacheKey |-> CacheKeyOf("pstn:", key), ttl |-> TTL_pstn]
loadCdr(key)            == [cacheKey |-> CacheKeyOf("cdr:", key), ttl |-> TTL_cdr]

\* the options of the executive page's call of /status
platformStatus          == [cacheKey |-> <<"platform-status">>, ttl |-> TTL_platform_status]

\* The characters of a part of a key: the literal text of the template for
\* the parts that the templates write, the part itself for a character of
\* the customer identifier.
Spell(part) ==
  CASE part = "customers"       -> <<"c", "u", "s", "t", "o", "m", "e", "r", "s">>
    [] part = "platform-status" -> <<"p", "l", "a", "t", "f", "o", "r", "m", "-",
                                     "s", "t", "a", "t", "u", "s">>
    [] part = "health:"         -> <<"h", "e", "a", "l", "t", "h", ":">>
    [] part = "history:"        -> <<"h", "i", "s", "t", "o", "r", "y", ":">>
    [] part = "licenses:"       -> <<"l", "i", "c", "e", "n", "s", "e", "s", ":">>
    [] part = "devices:"        -> <<"d", "e", "v", "i", "c", "e", "s", ":">>
    [] part = "alerts:"         -> <<"a", "l", "e", "r", "t", "s", ":">>
    [] part = "analytics:"      -> <<"a", "n", "a", "l", "y", "t", "i", "c", "s", ":">>
    [] part = "pstn:"           -> <<"p", "s", "t", "n", ":">>
    [] part = "cdr:"            -> <<"c", "d", "r", ":">>
    [] OTHER                    -> <<part>>

\* the string that the template literal evaluates to, character by character
RECURSIVE KeyString(_)
KeyString(k) ==
  IF k = <<>> THEN <<>> ELSE Spell(Head(k)) \o KeyString(Tail(k))

\* the keys of the non-cacheable calls: `reeval:${key}:${now()}` and so on
StampedKey(resource, key, t) == <<resource>> \o key \o <<":", ToString(t)>>

(***************************************************************************)
(* The fetch client's state as one record, so that a handler that makes    *)
(* several calls can thread it through them. A step starts with no call    *)
(* settled yet.                                                            *)
(***************************************************************************)
St == [cache |-> cache, inflight |-> inflight, reqs |-> reqs, calls |-> calls,
       settled |-> <<>>, view |-> view, hyd |-> hyd, btn |-> btn,
       unhandled |-> unhandled, reevalKeys |-> reevalKeys,
       lastReeval |-> lastReeval]

Commit(S) ==
  /\ cache' = S.cache
  /\ inflight' = S.inflight
  /\ reqs' = S.reqs
  /\ calls' = S.calls
  /\ settled' = S.settled
  /\ view' = S.view
  /\ hyd' = S.hyd
  /\ btn' = S.btn
  /\ unhandled' = S.unhandled
  /\ reevalKeys' = S.reevalKeys
  /\ lastReeval' = S.lastReeval
  /\ UNCHANGED <<input, output, deb>>

MapSet(m, k, v) == [x \in DOMAIN m \cup {k} |-> IF x = k THEN v ELSE m[x]]
MapDelete(m, k) == [x \in DOMAIN m \ {k} |-> m[x]]
EmptyMap == [x \in {} |-> 0]

clearCacheAndInflight(S, prefix) ==
  [S EXCEPT
     !.cache = [k \in {x \in DOMAIN S.cache : ~StartsWith(x, prefix)} |-> S.cache[k]],
     !.inflight = [k \in {x \in DOMAIN S.inflight : ~StartsWith(x, prefix)} |-> S.inflight[k]]]

clearCacheExactKey(S, prefix) ==
  [S EXCEPT !.cache = [k \in DOMAIN S.cache \ {prefix} |-> S.cache[k]]]

\* function clearCachePrefix(prefix). The loop deletes the matching entries;
\* reqs[p].inval records, for the history, that promise p was created before
\* an invalidation of its key.
clearCachePrefix(S, prefix) ==
  [S EXCEPT
     !.cache = [k \in {x \in DOMAIN S.cache : ~StartsWith(x, prefix)} |-> S.cache[k]],
     !.reqs = [p \in DOMAIN S.reqs |->
                 IF StartsWith(S.reqs[p].key, prefix)
                 THEN [S.reqs[p] EXCEPT !.inval = TRUE]
                 ELSE S.reqs[p]]]

\* a promise is named by the least number that names no reachable promise
NewPromise(S) ==
  CHOOSE n \in 1..(Cardinality(DOMAIN S.reqs) + 1) : n \notin DOMAIN S.reqs

CacheHitNever(S, cacheKey) == FALSE

CacheHitInclusive(S, cacheKey) ==
  /\ cacheKey \in DOMAIN S.cache
  /\ S.cache[cacheKey].expires >= now

\* const cached = cache.get(cacheKey); if (cached && cached.expires > now())
CacheHit(S, cacheKey) ==
  /\ cacheKey \in DOMAIN S.cache
  /\ S.cache[cacheKey].expires > now

Pending == "pending"

\* a call's record: who made it, its key, the promise answering it
\* (0: answered from the cache), what it has settled with (out: the kind of
\* body or of error) and, for
\* the history, whether the promise that answers it was created before an
\* invalidation (pre) or before the success of a mutating action (stale)
\* that preceded the call
Call(who, cacheKey, p, st, out, pre, stale) ==
  [who |-> who, key |-> cacheKey, p |-> p, st |-> st, out |-> out,
   pre |-> pre, stale |-> stale]

\* who awaits a call: the async function and, for hydrateCustomerPage, which
\* of its invocations
Who(fn, id) == [fn |-> fn, id |-> id]

\* the promise `req`: net says whether fetch() was called
NewReq(cacheKey, ttl) ==
  [key |-> cacheKey, ttl |-> ttl, net |-> TRUE, st |-> Pending, inval |-> FALSE,
   mut |-> FALSE]

\* the promise of a `req` whose body threw before its first await: no
\* fetch() was called and the promise is rejected from the start
ThrownReq(cacheKey, ttl) ==
  [key |-> cacheKey, ttl |-> ttl, net |-> FALSE, st |-> "err", inval |-> FALSE,
   mut |-> FALSE]

\* what a call that joins promise p gets if p is settled already
SettledOut(S, p) == IF S.reqs[p].net THEN "" ELSE "exception"

\* body ? JSON.stringify(body) : null  throws for a value JSON cannot encode
\* (a cyclic object, a BigInt)
StringifyThrows(body) == body = "cyclic"

InflightHasNever(S, cacheKey) == FALSE

\* if (inflight.has(cacheKey))
InflightHas(S, cacheKey) == cacheKey \in DOMAIN S.inflight

\* const req = (async () => { try { ... fetch(...) ... } finally {
\* inflight.delete(cacheKey) } })(); inflight.set(cacheKey, req); return req;
\* The async function runs synchronously up to its first await: either it
\* reaches fetch(), or it throws, runs its finally and returns a rejected
\* promise, all before inflight.set.
StartReq(S, who, cacheKey, ttl, body) ==
  LET p == NewPromise(S) IN
  IF StringifyThrows(body)
  THEN [S EXCEPT !.reqs = MapSet(@, p, ThrownReq(cacheKey, ttl)),
                 !.inflight = MapSet(MapDelete(@, cacheKey), cacheKey, p),
                 !.settled = Append(@, Call(who, cacheKey, p, "err", "exception", FALSE, FALSE))]
  ELSE [S EXCEPT !.reqs = MapSet(@, p, NewReq(cacheKey, ttl)),
                 !.inflight = MapSet(@, cacheKey, p),
                 !.calls = Append(@, Call(who, cacheKey, p, Pending, "", FALSE, FALSE))]

\* async function apiFetch(path, {cacheKey, ttl, method, body, headers})
apiFetch(S, who, cacheKey, ttl, body) ==
  IF CacheHit(S, cacheKey)
  THEN LET e == S.cache[cacheKey] IN
       [S EXCEPT !.settled = Append(@,
          Call(who, cacheKey, 0, "ok", e.value, e.inval, e.mut))]
  ELSE IF InflightHas(S, cacheKey)
  THEN LET p == S.inflight[cacheKey]
           c == Call(who, cacheKey, p, S.reqs[p].st, SettledOut(S, p),
                     S.reqs[p].inval, S.reqs[p].mut)
       IN  IF S.reqs[p].st = Pending
           THEN [S EXCEPT !.calls = Append(@, c)]
           ELSE [S EXCEPT !.settled = Append(@, c)]
  ELSE StartReq(S, who, cacheKey, ttl, body)

(***************************************************************************)
(* The network's answers.                                                  *)
(***************************************************************************)
Failures == {"http404", "http500", "nonjson", "netfail"}
Payloads == {"rows", "empty"}

\* the resources whose views show an empty list in a way of its own
ListResources == {"devices:", "alerts:"}

Awaiting(cs, p) == SelectSeq(cs, LAMBDA c : c.p = p)
NotAwaiting(cs, p) == SelectSeq(cs, LAMBDA c : c.p # p)

\* every call awaiting promise p settles as p does
Deliver(S, p, st, out) ==
  LET got == Awaiting(S.calls, p) IN
  [S EXCEPT
     !.calls = NotAwaiting(@, p),
     !.settled = @ \o [i \in DOMAIN got |->
                         [got[i] EXCEPT !.st = st, !.out = out]]]

ReqSucceedsAlwaysStores(S, p, body) ==
  LET r == S.reqs[p]
      T == [S EXCEPT
              !.cache = MapSet(@, r.key, [value |-> body, expires |-> now + r.ttl,
                                          at |-> now, ttl |-> r.ttl,
                                          inval |-> r.inval, mut |-> r.mut]),
              !.inflight = MapDelete(@, r.key),
              !.reqs = MapDelete(@, p)]
  IN  Deliver(T, p, "ok", body)

ReqSucceedsKeepsInflight(S, p, body) ==
  LET r == S.reqs[p]
      T == [S EXCEPT
              !.cache = IF r.ttl > 0
                        THEN MapSet(@, r.key, [value |-> body,
                                               expires |-> now + r.ttl,
                                               at |-> now, ttl |-> r.ttl,
                                               inval |-> r.inval, mut |-> r.mut])
                        ELSE @,
              !.reqs[p].st = "ok"]
  IN  Deliver(T, p, "ok", body)

\* the rest of `req` after a 2xx JSON response: commit, return, finally.
\* Of a cache entry, at, ttl, inval and mut are history: the time of the
\* commit and what is known of the promise that obtained the value.
ReqSucceeds(S, p, body) ==
  LET r == S.reqs[p]
      T == [S EXCEPT
              !.cache = IF r.ttl > 0
                        THEN MapSet(@, r.key, [value |-> body,
                                               expires |-> now + r.ttl,
                                               at |-> now, ttl |-> r.ttl,
                                               inval |-> r.inval, mut |-> r.mut])
                        ELSE @,
              !.inflight = MapDelete(@, r.key),
              !.reqs = MapDelete(@, p)]
  IN  Deliver(T, p, "ok", body)

ReqFailsCachesError(S, p, kind) ==
  LET r == S.reqs[p]
      T == [S EXCEPT
              !.cache = MapSet(@, r.key, [value |-> kind, expires |-> now + r.ttl,
                                          at |-> now, ttl |-> r.ttl,
                                          inval |-> r.inval, mut |-> r.mut]),
              !.inflight = MapDelete(@, r.key),
              !.reqs = MapDelete(@, p)]
  IN  Deliver(T, p, "err", kind)

ReqFailsKeepsInflight(S, p, kind) ==
  Deliver([S EXCEPT !.reqs[p].st = "err"], p, "err", kind)

\* the rest of `req` after !res.ok, a non-JSON body or a rejected fetch()
ReqFails(S, p, kind) ==
  LET r == S.reqs[p]
      T == [S EXCEPT
              !.inflight = MapDelete(@, r.key),
              !.reqs = MapDelete(@, p)]
  IN  Deliver(T, p, "err", kind)

Outstanding(S) == {p \in DOMAIN S.reqs : S.reqs[p].net /\ S.reqs[p].st = Pending}

(***************************************************************************)
(* The customer page. Its elements (tables, panels, buttons) all exist.    *)
(* A view shows `display`; `from` is history: how the load behind what is  *)
(* shown ended (the kind of body or of error).                             *)
(***************************************************************************)
PageKey == <<"a">>

TabViews == {"devices", "alerts", "analytics", "pstn", "cdr"}
\* the report page: the sections that the three required loads fill, and
\* the devices and alerts summaries
ReportViews == {"report", "reportDevices", "reportAlerts"}
Views == TabViews \cup {"primary", "reportPreview"} \cup ReportViews

Show(W, v, display, from) ==
  [W EXCEPT !.view[v] = [display |-> display, from |-> from]]

\* A message is modelled as the sequence of its parts: the literal pieces of
\* the template and the values put between them.
\* new Error(`API ${path} failed (${res.status})`)
HttpErrorMessage(path, status) ==
  <<"API ">> \o path \o <<" failed (", ToString(status), ")">>

\* new Error(`Non-JSON response from ${path}`)
NonJsonMessage(path) == <<"Non-JSON response from ">> \o path

\* the path of the request behind a failure that the page sees
SomePath == <<"/customer/", "a", "/x">>

\* String(err?.message || err) for the kinds of failure
ErrorMessage(out) ==
  CASE out = "http404" -> HttpErrorMessage(SomePath, 404)
    [] out = "http500" -> HttpErrorMessage(SomePath, 500)
    [] out = "nonjson" -> NonJsonMessage(SomePath)
    [] out = "netfail" -> <<"Failed to fetch">>
    [] OTHER           -> <<"Converting circular structure to JSON">>

isNotFoundAnywhere(message) ==
  \E i \in DOMAIN message : message[i] = "404"

\* /failed \(404\)/i.test(message)
isNotFoundMessage(message) ==
  \E i \in 1..(Len(message) - 2) :
    /\ message[i] = " failed ("
    /\ message[i + 1] = "404"
    /\ message[i + 2] = ")"

\* function isNotFoundError(err)
isNotFoundError(out) == isNotFoundMessage(ErrorMessage(out))

Load(W, fn, l) == apiFetch(W, Who(fn, 0), l.cacheKey, l.ttl, "none")

\* async function hydrateDevices(key), up to its await
hydrateDevices(W, key) ==
  Load(Show(W, "devices", "Loading", ""), "hydrateDevices", loadDevices(key))

\* hydrateDevices from its await on: the try's rest, or the catch
afterLoadDevices(W, c) ==
  IF c.st = "ok"
  THEN Show(W, "devices", IF c.out = "rows" THEN "Rows" ELSE "NoMatchingDevices", c.out)
  ELSE IF isNotFoundError(c.out)
  THEN Show(W, "devices", "DevicesEndpointNotAvailable", c.out)
  ELSE Show(W, "devices", "DeviceDataUnavailable", c.out)

\* async function hydrateAlerts(key), up to its await
hydrateAlerts(W, key) ==
  Load(Show(W, "alerts", "Loading", ""), "hydrateAlerts", loadAlerts(key))

\* hydrateAlerts from its await on
afterLoadAlerts(W, c) ==
  IF c.st = "ok"
  THEN Show(W, "alerts", IF c.out = "rows" THEN "Rows" ELSE "NoAlertsRecorded", c.out)
  ELSE IF isNotFoundError(c.out)
  THEN Show(W, "alerts", "AlertsEndpointNotAvailable", c.out)
  ELSE Show(W, "alerts", "NoHealthAlerts", c.out)

\* async function hydrateAnalytics(key), hydratePstn(key), hydrateCdr(key)
hydrateAnalytics(W, key) ==
  Load(Show(W, "analytics", "Loading", ""), "hydrateAnalytics", loadAnalytics(key))

afterLoadAnalytics(W, c) ==
  Show(W, "analytics", IF c.st = "ok" THEN "Rendered" ELSE "AnalyticsUnavailable", c.out)

hydratePstn(W, key) ==
  Load(Show(W, "pstn", "Loading", ""), "hydratePstn", loadPstn(key))

afterLoadPstn(W, c) ==
  Show(W, "pstn", IF c.st = "ok" THEN "Rendered" ELSE "PstnUnavailable", c.out)

hydrateCdr(W, key) ==
  Load(Show(W, "cdr", "Loading", ""), "hydrateCdr", loadCdr(key))

afterLoadCdr(W, c) ==
  Show(W, "cdr", IF c.st = "ok" THEN "Rendered" ELSE "CdrUnavailable", c.out)

\* async function hydrateCustomerPage(key, {force}), up to its await of
\* Promise.all([loadCustomerHealth, loadHealthHistory, loadLicenses])
hydrateCustomerPage(W, key, by) ==
  LET h  == CHOOSE n \in 1..(Cardinality(DOMAIN W.hyd) + 1) : n \notin DOMAIN W.hyd
      W0 == [W EXCEPT !.hyd = MapSet(@, h, [by |-> by, got |-> 0])]
      l1 == loadCustomerHealth(key)
      l2 == loadHealthHistory(key)
      l3 == loadLicenses(key)
      W1 == apiFetch(W0, Who("hydrateCustomerPage", h), l1.cacheKey, l1.ttl, "none")
      W2 == apiFetch(W1, Who("hydrateCustomerPage", h), l2.cacheKey, l2.ttl, "none")
  IN  apiFetch(W2, Who("hydrateCustomerPage", h), l3.cacheKey, l3.ttl, "none")

\* what awaits hydrateCustomerPage: nothing in initCustomerPage and in the
\* refresh handler; the finally of the re-evaluation handler
hydrateResolved(W, by) ==
  IF by = "reeval" THEN [W EXCEPT !.btn.reeval = FALSE] ELSE W

hydrateRejectedSkipsFinally(W, by) ==
  [W EXCEPT !.unhandled = TRUE]

hydrateRejected(W, by) ==
  [hydrateResolved(W, by) EXCEPT !.unhandled = TRUE]

afterPromiseAllRace(W, c) ==
  LET h == c.who.id IN
  IF h \notin DOMAIN W.hyd THEN W
  ELSE IF c.st = "err"
  THEN hydrateRejected([W EXCEPT !.hyd = MapDelete(@, h)], W.hyd[h].by)
  ELSE LET W1 == Show([W EXCEPT !.hyd = MapDelete(@, h)], "primary", "Rendered", "")
           W2 == hydrateDevices(W1, PageKey)
           W3 == hydrateAlerts(W2, PageKey)
           W4 == Show(W3, "reportPreview", "Rendered", "")
       IN  hydrateResolved(W4, W.hyd[h].by)

afterPromiseAllWaits(W, c) ==
  LET h == c.who.id IN
  IF h \notin DOMAIN W.hyd THEN W
  ELSE IF c.st = "err"
  THEN hydrateRejected([W EXCEPT !.hyd = MapDelete(@, h)], W.hyd[h].by)
  ELSE IF W.hyd[h].got < 2
  THEN [W EXCEPT !.hyd[h].got = @ + 1]
  ELSE LET W1 == Show([W EXCEPT !.hyd[h].got = 3], "primary", "Rendered", "")
           W2 == hydrateDevices(W1, PageKey)
           W3 == hydrateAlerts(W2, PageKey)
       IN  Show(W3, "reportPreview", "Rendered", "")

\* hydrateCustomerPage from its await on: Promise.all rejects with the first
\* rejection and resolves with the last of the three results
afterPromiseAll(W, c) ==
  LET h == c.who.id IN
  IF h \notin DOMAIN W.hyd THEN W
  ELSE IF c.st = "err"
  THEN hydrateRejected([W EXCEPT !.hyd = MapDelete(@, h)], W.hyd[h].by)
  ELSE IF W.hyd[h].got < 2
  THEN [W EXCEPT !.hyd[h].got = @ + 1]
  ELSE LET W1 == Show([W EXCEPT !.hyd = MapDelete(@, h)], "primary", "Rendered", "")
           W2 == hydrateDevices(W1, PageKey)
           W3 == hydrateAlerts(W2, PageKey)
           W4 == Show(W3, "reportPreview", "Rendered", "")
       IN  hydrateResolved(W4, W.hyd[h].by)

\* history: the re-evaluation has succeeded, so every promise for the
\* customer's health created so far, and every value cached for it, is from
\* before the mutation (health is the resource that the handler of btnReeval
\* itself clears)
Mutated(W, key) ==
  LET Old(k) == StartsWith(k, CacheKeyOf("health:", key)) IN
  [W EXCEPT !.reqs = [p \in DOMAIN W.reqs |->
                        IF Old(W.reqs[p].key)
                        THEN [W.reqs[p] EXCEPT !.mut = TRUE] ELSE W.reqs[p]],
            !.cache = [k \in DOMAIN W.cache |->
                         IF Old(k)
                         THEN [W.cache[k] EXCEPT !.mut = TRUE] ELSE W.cache[k]]]

\* History of the latest invocation of triggerReeval, kept only where `on`
\* is set: post and fallback say how its two requests ended ("" while not
\* made), st and out how the invocation itself settled.
NoReeval == [on |-> FALSE, post |-> "", fallback |-> "", st |-> "", out |-> ""]

Note(W, field, value) ==
  IF W.lastReeval.on THEN [W EXCEPT !.lastReeval[field] = value] ELSE W

\* async function triggerReeval(key), up to the await in its try
triggerReeval(W, key) ==
  LET k  == StampedKey("reeval:", key, now)
      W1 == [W EXCEPT !.lastReeval = [NoReeval EXCEPT !.on = W.lastReeval.on]]
      W2 == Note(Note(W1, "post", Pending), "st", Pending)
  IN  apiFetch([W2 EXCEPT !.reevalKeys = Append(@, k)], Who("triggerReeval", 0), k, 0, "none")

\* the click handler of btnReeval after `await triggerReeval(key)`
afterReeval(W) == hydrateCustomerPage(Mutated(W, PageKey), PageKey, "reeval")

\* triggerReeval has settled: the handler of btnReeval goes on after its
\* await, or leaves through its finally with nothing to catch the rejection
reevalSettled(W, st, out) ==
  LET W1 == Note(Note(W, "st", st), "out", out) IN
  IF st = "ok" THEN afterReeval(W1)
  ELSE [W1 EXCEPT !.btn.reeval = FALSE, !.unhandled = TRUE]

afterReevalPostNoFallback(W, c) ==
  reevalSettled(Note(W, "post", c.out), c.st, c.out)

\* triggerReeval from its await on: return, or the catch's fallback
afterReevalPost(W, c) ==
  LET W1 == Note(W, "post", c.out) IN
  IF c.st = "ok" THEN reevalSettled(W1, "ok", c.out)
  ELSE apiFetch(Note(W1, "fallback", Pending),
                Who("triggerReevalFallback", 0),
                StampedKey("health_force:", PageKey, now), 0, "none")

\* `return apiFetch(...)` in the catch: triggerReeval settles as the
\* fallback does
afterReevalFallback(W, c) ==
  reevalSettled(Note(W, "fallback", c.out), c.st, c.out)

\* the click handler of btnEmail from its await on
afterEmail(W, c) ==
  [W EXCEPT !.btn.email = FALSE]

\* async function initReportPage(), up to its await of Promise.all; `key`
\* is the customer parameter of the URL, "" when there is none
initReportPage(W, key) ==
  IF key = <<>> THEN Show(W, "report", "MissingCustomer", "")
  ELSE
  LET h  == CHOOSE n \in 1..(Cardinality(DOMAIN W.hyd) + 1) : n \notin DOMAIN W.hyd
      W0 == [W EXCEPT !.hyd = MapSet(@, h, [by |-> "report", got |-> 0,
                                              devices |-> "", devicesFrom |-> ""])]
      l1 == loadCustomerHealth(key)
      l2 == loadHealthHistory(key)
      l3 == loadLicenses(key)
      W1 == apiFetch(W0, Who("initReportPage", h), l1.cacheKey, l1.ttl, "none")
      W2 == apiFetch(W1, Who("initReportPage", h), l2.cacheKey, l2.ttl, "none")
  IN  apiFetch(W2, Who("initReportPage", h), l3.cacheKey, l3.ttl, "none")

\* async function safeOptional(fn): what it resolves with once fn() settled
safeOptional(c) == IF c.st = "ok" THEN c.out ELSE "null"

\* initReportPage from Promise.all on: nothing catches its rejection (of the
\* report view `from` then records the failure); when the three have
\* resolved, up to `await safeOptional(() => loadDevices(key))`
afterReportAll(W, c) ==
  LET h == c.who.id IN
  IF h \notin DOMAIN W.hyd \/ W.hyd[h].got = 3 THEN W
  ELSE IF c.st = "err"
  THEN [Show(W, "report", "Unactivated", c.out) EXCEPT
          !.hyd = MapDelete(@, h), !.unhandled = TRUE]
  ELSE IF W.hyd[h].got < 2
  THEN [W EXCEPT !.hyd[h].got = @ + 1]
  ELSE LET l == loadDevices(PageKey) IN
       apiFetch([W EXCEPT !.hyd[h].got = 3], Who("reportDevices", h),
                l.cacheKey, l.ttl, "none")

afterReportDevicesPropagates(W, c) ==
  LET h == c.who.id
      l == loadAlerts(PageKey)
  IN  IF c.st = "err"
      THEN [W EXCEPT !.hyd = MapDelete(@, h), !.unhandled = TRUE]
      ELSE apiFetch([W EXCEPT !.hyd[h].devices = safeOptional(c),
                              !.hyd[h].devicesFrom = c.out],
                    Who("reportAlerts", h), l.cacheKey, l.ttl, "none")

\* const devices = await safeOptional(...), up to
\* `await safeOptional(() => loadAlerts(key))`
afterReportDevices(W, c) ==
  LET h == c.who.id
      l == loadAlerts(PageKey)
  IN  apiFetch([W EXCEPT !.hyd[h].devices = safeOptional(c),
                         !.hyd[h].devicesFrom = c.out],
               Who("reportAlerts", h), l.cacheKey, l.ttl, "none")

\* const alerts = await safeOptional(...), then the rendering of the report
afterReportAlerts(W, c) ==
  LET h       == c.who.id
      devices == W.hyd[h].devices
      alerts  == safeOptional(c)
      W1 == Show(W, "report", "Rendered", "")
      W2 == Show(W1, "reportDevices",
                 IF devices # "null" THEN "DevicesSummary" ELSE "DevicesApiNotAvailable",
                 W.hyd[h].devicesFrom)
      W3 == Show(W2, "reportAlerts",
                 IF alerts = "null" THEN "AlertsApiNotAvailable"
                 ELSE IF alerts = "rows" THEN "AlertsList" ELSE "NoAlertsRecorded",
                 c.out)
  IN  [W3 EXCEPT !.hyd = MapDelete(@, h)]

\* the continuation awaiting call c
Continue(W, c) ==
  CASE c.who.fn = "hydrateCustomerPage"   -> afterPromiseAll(W, c)
    [] c.who.fn = "hydrateDevices"        -> afterLoadDevices(W, c)
    [] c.who.fn = "hydrateAlerts"         -> afterLoadAlerts(W, c)
    [] c.who.fn = "hydrateAnalytics"      -> afterLoadAnalytics(W, c)
    [] c.who.fn = "hydratePstn"           -> afterLoadPstn(W, c)
    [] c.who.fn = "hydrateCdr"            -> afterLoadCdr(W, c)
    [] c.who.fn = "triggerReeval"         -> afterReevalPost(W, c)
    [] c.who.fn = "triggerReevalFallback" -> afterReevalFallback(W, c)
    [] c.who.fn = "btnEmail"              -> afterEmail(W, c)
    [] c.who.fn = "initReportPage"        -> afterReportAll(W, c)
    [] c.who.fn = "reportDevices"         -> afterReportDevices(W, c)
    [] c.who.fn = "reportAlerts"          -> afterReportAlerts(W, c)
    [] OTHER                              -> W

\* history: the settled calls of callers outside the page, and those that
\* resolved to a value from before an invalidation or a mutation
Kept(c) == c.who.fn = "caller" \/ (c.st = "ok" /\ (c.pre \/ c.stale))

\* run the continuations of the calls settled in this task, in order, with
\* those of the calls that they make and that settle at once
RECURSIVE Drain(_, _)
Drain(W, i) ==
  IF i > Len(W.settled)
  THEN [W EXCEPT !.settled = SelectSeq(@, Kept)]
  ELSE Drain(Continue(W, W.settled[i]), i + 1)

\* setTabs: function activate(name), its lazy load
activate(W, name) ==
  CASE name = "devices"   -> hydrateDevices(W, PageKey)
    [] name = "alerts"    -> hydrateAlerts(W, PageKey)
    [] name = "analytics" -> hydrateAnalytics(W, PageKey)
    [] name = "pstn"      -> hydratePstn(W, PageKey)
    [] name = "cdr"       -> hydrateCdr(W, PageKey)
    [] OTHER              -> W

\* the click handler of btnRefresh, up to its await
btnRefresh(W, key) ==
  LET W1 == clearCachePrefix(W, CacheKeyOf("health:", key))
      W2 == clearCachePrefix(W1, CacheKeyOf("history:", key))
      W3 == clearCachePrefix(W2, CacheKeyOf("licenses:", key))
      W4 == clearCachePrefix(W3, CacheKeyOf("devices:", key))
      W5 == clearCachePrefix(W4, CacheKeyOf("alerts:", key))
  IN  hydrateCustomerPage(W5, key, "refresh")

\* the click handler of btnReeval, up to its await
btnReeval(W, key) ==
  triggerReeval(clearCachePrefix([W EXCEPT !.btn.reeval = TRUE],
                                 CacheKeyOf("health:", key)), key)

\* the click handler of btnEmail, up to its await (body: {})
btnEmail(W, key) ==
  apiFetch([W EXCEPT !.btn.email = TRUE], Who("btnEmail", 0),
           StampedKey("license_alert:", key, now), 0, "json")

\* the click handler of btnRefreshAlerts, up to its await
btnRefreshAlerts(W, key) ==
  hydrateAlerts(clearCachePrefix(W, CacheKeyOf("alerts:", key)), key)

NoWorld ==
  [cache |-> EmptyMap, inflight |-> EmptyMap, reqs |-> EmptyMap, calls |-> <<>>,
   settled |-> <<>>,
   view |-> [v \in Views |-> [display |-> "Unactivated", from |-> ""]],
   hyd |-> EmptyMap, btn |-> [reeval |-> FALSE, email |-> FALSE],
   unhandled |-> FALSE, reevalKeys |-> <<>>, lastReeval |-> NoReeval]

Is(W) ==
  /\ cache = W.cache
  /\ inflight = W.inflight
  /\ reqs = W.reqs
  /\ calls = W.calls
  /\ settled = W.settled
  /\ view = W.view
  /\ hyd = W.hyd
  /\ btn = W.btn
  /\ unhandled = W.unhandled
  /\ reevalKeys = W.reevalKeys
  /\ lastReeval = W.lastReeval

NoEvent == [type |-> "load", arg |-> ""]

\* no function is under study
NoInput == <<>>
NoOutput == <<>>
\* no function has been debounced
NoDebounce == [delay |-> 0, t |-> 0, timers |-> EmptyMap, log |-> <<>>]
Idle == input = NoInput /\ output = NoOutput /\ deb = NoDebounce

(***************************************************************************)
(* Actions of the fetch client driven by arbitrary callers.                *)
(***************************************************************************)
Loads == {loadCustomerHealth(k) : k \in Customers}

Prefixes == {l.cacheKey : l \in Loads}

CanCall(n) == Len(calls) + n <= MaxCalls

Init ==
  /\ now = 0
  /\ ticks = 0
  /\ clicks = 0
  /\ event = NoEvent
  /\ Is(NoWorld)
  /\ Idle

CallLoader ==
  \E l \in Loads :
    /\ CanCall(1)
    /\ Commit(apiFetch(St, Who("caller", 0), l.cacheKey, l.ttl, "none"))
    /\ UNCHANGED <<now, ticks, clicks, event>>

\* the network answers request p
AnswerWith(p, payloads, failures) ==
  /\ \/ \E body \in payloads :
          /\ body = "empty" => Head(reqs[p].key) \in ListResources
          /\ \E W \in {Drain(ReqSucceeds(St, p, body), 1)} : Commit(W)
     \/ \E kind \in failures :
          \E W \in {Drain(ReqFails(St, p, kind), 1)} : Commit(W)
  /\ event' = [type |-> "response", arg |-> ""]
  /\ UNCHANGED <<now, ticks, clicks>>

RespondWith(payloads, failures) ==
  \E p \in Outstanding(St) : AnswerWith(p, payloads, failures)

\* to the fetch client a body is an opaque value
Respond ==
  /\ RespondWith({"rows"}, Failures)

Invalidate ==
  \E prefix \in Prefixes :
    /\ Commit(clearCachePrefix(St, prefix))
    /\ UNCHANGED <<now, ticks, clicks, event>>

Elapse == {1, CACHE_TTL_health - 1}

Tick ==
  \E d \in Elapse :
    /\ ticks < MaxTicks
    /\ now' = now + d
    /\ ticks' = ticks + 1
    /\ Commit(St)
    /\ UNCHANGED <<clicks, event>>

Next == CallLoader \/ Respond \/ Invalidate \/ Tick

Spec == Init /\ [][Next]_vars

\* the network answers request p
RespondTo(p) == p \in Outstanding(St) /\ AnswerWith(p, {"rows"}, Failures)

\* the names that promises get while at most MaxCalls calls are pending
PromiseIds == 1..MaxCalls

\* every network request that has been issued is answered in the end
SpecLive == Spec /\ \A p \in PromiseIds : WF_vars(RespondTo(p))

(***************************************************************************)
(* apiFetch called with any options: any request body, any ttl.            *)
(***************************************************************************)
RequestBodies == {"json", "cyclic"}

CallWithBody ==
  \E l \in Loads, ttl \in {0, CACHE_TTL_health}, body \in RequestBodies :
    /\ CanCall(1)
    /\ Commit(apiFetch(St, Who("caller", 0), l.cacheKey, ttl, body))
    /\ UNCHANGED <<now, ticks, clicks, event>>

NextAnyCaller == Next \/ CallWithBody

SpecAnyCaller == Init /\ [][NextAnyCaller]_vars

(***************************************************************************)
(* apiFetch called with ttl 0 (the default) under the loaders' keys.       *)
(***************************************************************************)
CallUncached ==
  \E l \in Loads :
    /\ CanCall(1)
    /\ Commit(apiFetch(St, Who("caller", 0), l.cacheKey, 0, "none"))
    /\ UNCHANGED <<now, ticks, clicks, event>>

NextUncached == Next \/ CallUncached

SpecUncached == Init /\ [][NextUncached]_vars

(***************************************************************************)
(* The customer page of customer PageKey: initCustomerPage has run up to   *)
(* its await, then the user clicks, the network answers and time passes.   *)
(***************************************************************************)
InitPage ==
  /\ now = 0
  /\ ticks = 0
  /\ clicks = 0
  /\ event = NoEvent
  /\ Is(Drain(hydrateCustomerPage(NoWorld, PageKey, "init"), 1))
  /\ Idle

Click(type, arg, W) ==
  /\ clicks < MaxClicks
  /\ clicks' = clicks + 1
  /\ event' = [type |-> type, arg |-> arg]
  /\ Commit(Drain(W, 1))
  /\ UNCHANGED <<now, ticks>>

ClickTab == \E name \in TabViews : Click("tab", name, activate(St, name))

ClickRefresh == Click("btnRefresh", "", btnRefresh(St, PageKey))

ClickReeval ==
  /\ ~btn.reeval
  /\ Click("btnReeval", "", btnReeval(St, PageKey))

ClickEmail ==
  /\ ~btn.email
  /\ Click("btnEmail", "", btnEmail(St, PageKey))

ClickRefreshAlerts == Click("btnRefreshAlerts", "", btnRefreshAlerts(St, PageKey))

\* the page tells a 404 from every other failure, and no failure from
\* another otherwise
PageFailures == {"http404", "http500"}

PageRespond ==
  /\ RespondWith(Payloads, PageFailures)

\* after two minutes every entry but the history's has expired
PageElapse == {CACHE_TTL_devices}

PageTick ==
  \E d \in PageElapse :
    /\ ticks < MaxPageTicks
    /\ now' = now + d
    /\ ticks' = ticks + 1
    /\ event' = [type |-> "tick", arg |-> ""]
    /\ Commit(St)
    /\ UNCHANGED clicks

\* the user watches the page load
NextLoad == PageRespond \/ PageTick

SpecLoad == InitPage /\ [][NextLoad]_vars

\* the user opens tabs
NextTabs == ClickTab \/ PageRespond \/ PageTick

SpecTabs == InitPage /\ [][NextTabs]_vars

\* the user uses the two mutating actions
NextActions == ClickReeval \/ ClickEmail \/ PageRespond \/ PageTick

SpecActions == InitPage /\ [][NextActions]_vars

\* the user reloads the page's data
NextReload == ClickRefresh \/ PageRespond \/ PageTick

SpecReload == InitPage /\ [][NextReload]_vars

\* The report page of customer PageKey, or without a customer parameter:
\* initReportPage has run up to its await, then the network answers, with
\* any payload and any failure.
ReportKeys == {<<>>, PageKey}

InitReport ==
  /\ now = 0
  /\ ticks = 0
  /\ clicks = 0
  /\ event = NoEvent
  /\ \E key \in ReportKeys : Is(Drain(initReportPage(NoWorld, key), 1))
  /\ Idle

ReportRespond == RespondWith(Payloads, Failures)

NextReport == ReportRespond \/ PageTick

SpecReport == InitReport /\ [][NextReport]_vars

\* The page has loaded at time 0: the three loads of hydrateCustomerPage
\* and then the devices and alerts loads have succeeded, and their results
\* are in the cache.
LoadedEntry(l) ==
  [value |-> "rows", expires |-> l.ttl, at |-> 0, ttl |-> l.ttl,
   inval |-> FALSE, mut |-> FALSE]

LoadedLoaders ==
  { loadCustomerHealth(PageKey), loadHealthHistory(PageKey), loadLicenses(PageKey),
    loadDevices(PageKey), loadAlerts(PageKey) }

LoadedPage ==
  [NoWorld EXCEPT
     !.cache = [k \in {l.cacheKey : l \in LoadedLoaders} |->
                  LoadedEntry(CHOOSE l \in LoadedLoaders : l.cacheKey = k)],
     !.view = [v \in Views |->
                 CASE v \in {"primary", "reportPreview"} -> [display |-> "Rendered", from |-> ""]
                   [] v \in {"devices", "alerts"} -> [display |-> "Rows", from |-> "rows"]
                   [] OTHER -> NoWorld.view[v]]]

\* The user re-evaluates on the loaded page and the network answers with
\* any payload and any failure; the history of triggerReeval is kept.
InitReeval ==
  /\ now = 0
  /\ ticks = 0
  /\ clicks = 0
  /\ event = NoEvent
  /\ Is([LoadedPage EXCEPT !.lastReeval.on = TRUE])
  /\ Idle

ReevalRespond == RespondWith(Payloads, Failures)

NextReeval == ClickReeval \/ ReevalRespond \/ PageTick

SpecReeval == InitReeval /\ [][NextReeval]_vars

\* the user refreshes
NextRefresh == ClickRefresh \/ ClickRefreshAlerts \/ PageRespond \/ PageTick

SpecRefresh == InitPage /\ [][NextRefresh]_vars

(***************************************************************************)
(* Functions studied on their own: the arguments are drawn at the start    *)
(* and one step applies the function to them. The fetch client and the     *)
(* page stay as constructed.                                               *)
(***************************************************************************)
InitStudy(inputs) ==
  /\ now = 0
  /\ ticks = 0
  /\ clicks = 0
  /\ event = NoEvent
  /\ Is(NoWorld)
  /\ input \in inputs
  /\ output = NoOutput
  /\ deb = NoDebounce

Apply(result) ==
  /\ output = NoOutput
  /\ output' = <<result>>
  /\ UNCHANGED <<progVars, input, deb>>

\* the responses: status, the parts of the content-type header (none when
\* the header is absent), the path that was asked
Statuses == {200, 201, 204, 301, 400, 401, 403, 404, 500, 503}

ContentTypes ==
  { <<"application/json">>, <<"application/json", "; charset=utf-8">>,
    <<"text/html">>, <<>> }

Paths ==
  { <<"/customers">>, <<"/customer/", "a", "/health">>,
    <<"/customer/", "404", "/health">> }

Responses == [status : Statuses, contentType : ContentTypes, path : Paths]

\* res.ok
resOk(res) == res.status >= 200 /\ res.status <= 299

\* (res.headers.get("content-type") || "").includes("application/json")
IncludesJson(contentType) ==
  \E i \in DOMAIN contentType : contentType[i] = "application/json"

\* the body of `req` from the response on: what it throws or returns
Classified(res) ==
  IF ~resOk(res)
  THEN [st |-> "err", status |-> res.status,
        message |-> HttpErrorMessage(res.path, res.status)]
  ELSE IF ~IncludesJson(res.contentType)
  THEN [st |-> "err", status |-> res.status,
        message |-> NonJsonMessage(res.path)]
  ELSE [st |-> "ok", status |-> res.status, message |-> <<>>]

\* the caches and prefixes that clearCachePrefix is applied to: any set of
\* these keys cached, with the value distinct for each key
StudyKeys ==
  { <<"health:", "a">>, <<"health:", "a", "b">>, <<"health:">>,
    <<"history:", "a">>, <<"devices:", "a">> }

StudyPrefixes ==
  { <<"health:", "a">>, <<"health:", "a", "b">>, <<"health:">>,
    <<"history:", "a">>, <<"alerts:", "a">>, <<>> }

StudyEntry(k) ==
  [value |-> k, expires |-> CACHE_TTL_health, at |-> 0, ttl |-> CACHE_TTL_health,
   inval |-> FALSE, mut |-> FALSE]

InitPrefix ==
  InitStudy({<<[k \in ks |-> StudyEntry(k)], prefix>> :
               ks \in SUBSET StudyKeys, prefix \in StudyPrefixes})

ClearPrefix ==
  Apply(clearCachePrefix([NoWorld EXCEPT !.cache = input[1]], input[2]).cache)

NextPrefix == ClearPrefix

SpecPrefix == InitPrefix /\ [][NextPrefix]_vars

\* the loaders by resource kind; loadCustomers and the /status call take no
\* customer
PerCustomerKinds ==
  {"health", "history", "licenses", "devices", "alerts", "analytics", "pstn", "cdr"}

FixedKinds == {"customers", "platform-status"}

LoaderOf(kind, key) ==
  CASE kind = "customers"       -> loadCustomers
    [] kind = "platform-status" -> platformStatus
    [] kind = "health"          -> loadCustomerHealth(key)
    [] kind = "history"         -> loadHealthHistory(key)
    [] kind = "licenses"        -> loadLicenses(key)
    [] kind = "devices"         -> loadDevices(key)
    [] kind = "alerts"          -> loadAlerts(key)
    [] kind = "analytics"       -> loadAnalytics(key)
    [] kind = "pstn"            -> loadPstn(key)
    [] kind = "cdr"             -> loadCdr(key)

\* customer identifiers: strings, the empty one included (what
\* getCustomerKeyFromPath returns off a customer route), over characters
\* that the templates' own text uses
IdChars == {"a", "s", ":"}

StudyIds == UNION { [1..n -> IdChars] : n \in 0..MaxIdLen }

LoaderCalls ==
  { <<kind, key>> : kind \in PerCustomerKinds, key \in StudyIds }
    \cup { <<kind, <<>>>> : kind \in FixedKinds }

InitKeys == InitStudy({ <<a, b>> : a \in LoaderCalls, b \in LoaderCalls })

\* the cache keys of two loader calls, as the strings the Map compares
TwoKeys ==
  Apply(<<KeyString(LoaderOf(input[1][1], input[1][2]).cacheKey),
          KeyString(LoaderOf(input[2][1], input[2][2]).cacheKey)>>)

NextKeys == TwoKeys

SpecKeys == InitKeys /\ [][NextKeys]_vars

InitClassify == InitStudy({<<res>> : res \in Responses})

\* the response is classified and a caller's catch asks isNotFoundError
Classify ==
  LET r == Classified(input[1]) IN
  Apply([r |-> r, notFound |-> r.st = "err" /\ isNotFoundMessage(r.message)])

NextClassify == Classify

SpecClassify == InitClassify /\ [][NextClassify]_vars

(***************************************************************************)
(* Device rows. A string is the sequence of its characters. A field of a   *)
(* record is <<>> when it is absent and <<v>> when it holds v.             *)
(***************************************************************************)
UpperCase == <<"A", "B", "C", "D", "E", "F", "G", "H", "I", "J", "K", "L", "M",
               "N", "O", "P", "Q", "R", "S", "T", "U", "V", "W", "X", "Y", "Z">>
LowerCase == <<"a", "b", "c", "d", "e", "f", "g", "h", "i", "j", "k", "l", "m",
               "n", "o", "p", "q", "r", "s", "t", "u", "v", "w", "x", "y", "z">>

\* String.prototype.toLowerCase
toLowerCase(str) ==
  [i \in DOMAIN str |->
     IF \E j \in DOMAIN UpperCase : UpperCase[j] = str[i]
     THEN LowerCase[CHOOSE j \in DOMAIN UpperCase : UpperCase[j] = str[i]]
     ELSE str[i]]

\* String.prototype.includes
includes(str, sub) ==
  \E i \in 0..(Len(str) - Len(sub)) : SubSeq(str, i + 1, i + Len(sub)) = sub

s_offline      == <<"o", "f", "f", "l", "i", "n", "e">>
s_disconnected == <<"d", "i", "s", "c", "o", "n", "n", "e", "c", "t", "e", "d">>
s_online       == <<"o", "n", "l", "i", "n", "e">>
s_connected    == <<"c", "o", "n", "n", "e", "c", "t", "e", "d">>
s_unknown      == <<"u", "n", "k", "n", "o", "w", "n">>

\* the last-seen values: an empty string, a string that is no date, a date
\* (time: what getTime() gives)
EmptyDate   == [kind |-> "empty", time |-> 0]
InvalidDate == [kind |-> "invalid", time |-> 0]
DateAt(t)   == [kind |-> "date", time |-> t]

\* a || b || ... over fields: the first one that holds a truthy value
\* (for strings: a non-empty one), <<>> when there is none
Truthy(field) ==
  /\ field # <<>>
  /\ field[1] # <<>>
  /\ field[1] # EmptyDate

FirstTruthy(fields) ==
  IF \E i \in DOMAIN fields : Truthy(fields[i])
  THEN fields[CHOOSE i \in DOMAIN fields :
                /\ Truthy(fields[i])
                /\ \A j \in 1..(i - 1) : ~Truthy(fields[j])]
  ELSE <<>>

MsPerHour == 3600000
OutageHours == 48

\* status: a string; lastSeen: <<>> for null; clock: Date.now(); "-" stands
\* for the dash that the code returns as the placeholder
guessDeviceRootCause(status, lastSeen, clock) ==
  IF lastSeen = <<>> THEN "Cloud inventory / registration drift"
  ELSE LET finite == lastSeen[1].kind = "date"
           ageMs  == clock - lastSeen[1].time
       IN  IF status = s_offline
           THEN IF finite /\ ageMs > OutageHours * MsPerHour
                THEN "Power / site outage likely"
                ELSE "Network / power intermittent"
           ELSE IF status = s_disconnected THEN "LAN / network drop likely"
           ELSE "-"

\* the status, statusClass, lastSeen and rootCause of the row
normalizeDeviceRow(d, clock) ==
  LET first     == FirstTruthy(<<d.connectionStatus, d.status>>)
      statusRaw == toLowerCase(IF first = <<>> THEN <<>> ELSE first[1])
      status    == IF includes(statusRaw, s_offline) \/ includes(statusRaw, s_disconnected)
                   THEN s_offline
                   ELSE IF includes(statusRaw, s_online) \/ includes(statusRaw, s_connected)
                   THEN s_online
                   ELSE IF statusRaw # <<>> THEN statusRaw ELSE s_unknown
      lastSeen  == FirstTruthy(<<d.lastSeen, d.lastActivityTime, d.lastUpdated>>)
  IN  [status      |-> status,
       statusClass |-> IF status = s_offline THEN "health-red"
                       ELSE IF status = s_online THEN "health-green"
                       ELSE "health-unknown",
       lastSeen    |-> lastSeen,
       rootCause   |-> guessDeviceRootCause(status, lastSeen, clock)]

\* the devices of the study: status strings in several cases, one inside
\* another, unmatched and empty; last-seen values around the 48 hours
StatusStrings ==
  { <<"O", "f", "f", "l", "i", "n", "e">>,
    <<"D", "I", "S", "C", "O", "N", "N", "E", "C", "T", "E", "D">>,
    <<"o", "n", "l", "i", "n", "e">>,
    <<"C", "o", "n", "n", "e", "c", "t", "e", "d">>,
    <<"D", "e", "g", "r", "a", "d", "e", "d">>,
    <<"u", "n", "k", "n", "o", "w", "n">>,
    <<>> }

StatusFields == {<<>>} \cup { <<str>> : str \in StatusStrings }

StudyClock == 72 * MsPerHour

LastSeenFields ==
  { <<>>, <<EmptyDate>>, <<InvalidDate>>,
    <<DateAt(0)>>,
    <<DateAt(StudyClock - OutageHours * MsPerHour - 1)>>,
    <<DateAt(StudyClock - OutageHours * MsPerHour)>>,
    <<DateAt(StudyClock - MsPerHour)>>,
    <<DateAt(StudyClock + MsPerHour)>> }

Devices ==
  [connectionStatus : StatusFields, status : StatusFields,
   lastSeen : LastSeenFields,
   lastActivityTime : {<<>>, <<DateAt(StudyClock - MsPerHour)>>},
   lastUpdated : {<<>>, <<DateAt(0)>>}]

InitDevices ==
  /\ now = StudyClock
  /\ ticks = 0
  /\ clicks = 0
  /\ event = NoEvent
  /\ Is(NoWorld)
  /\ input \in { <<d>> : d \in Devices }
  /\ output = NoOutput
  /\ deb = NoDebounce

NormalizeDevice == Apply(normalizeDeviceRow(input[1], now))

NextDevices == NormalizeDevice

SpecDevices == InitDevices /\ [][NextDevices]_vars

(***************************************************************************)
(* The invalidating handlers of the customer page, applied to a cache that *)
(* holds entries of several customers (one document may run several page   *)
(* inits, and the dashboard and executive inits load every customer's      *)
(* health). The page's customer may be "": getCustomerKeyFromPath returns  *)
(* it off a customer route.                                                *)
(***************************************************************************)
FrameCustomers == { <<"a">>, <<"a", "b">>, <<"b">> }
FramePageKeys == { <<>>, <<"a">>, <<"a", "b">> }
FrameResources == {"health:", "history:", "licenses:", "devices:", "alerts:"}
FrameHandlers == {"btnRefresh", "btnReeval", "btnRefreshAlerts"}

FrameCache(customers, resources) ==
  [k \in { CacheKeyOf(r, c) : r \in resources, c \in customers } |-> StudyEntry(k)]

InitFrame ==
  InitStudy({ <<key, FrameCache(cs, rs), handler>> :
                key \in FramePageKeys, cs \in SUBSET FrameCustomers,
                rs \in SUBSET FrameResources, handler \in FrameHandlers })

\* the handler runs up to its await; the cache it leaves
HandlerRuns ==
  LET key == input[1]
      W   == [NoWorld EXCEPT !.cache = input[2]]
  IN  Apply(CASE input[3] = "btnRefresh"       -> btnRefresh(W, key).cache
              [] input[3] = "btnReeval"        -> btnReeval(W, key).cache
              [] input[3] = "btnRefreshAlerts" -> btnRefreshAlerts(W, key).cache)

NextFrame == HandlerRuns

SpecFrame == InitFrame /\ [][NextFrame]_vars

(***************************************************************************)
(* debounce(fn, delay). `t` is the closure's variable: the id of the timer *)
(* set last (0 before the first). `timers` holds the timers that are set   *)
(* and have neither fired nor been cleared. `log` is history: the          *)
(* triggers and the runs of fn, with the time and the arguments of each.   *)
(***************************************************************************)
\* clearTimeout(t) without effect
clearTimeoutNothing(timers, t) == timers

\* clearTimeout(t): no effect when t is no timer that is set
clearTimeout(timers, t) ==
  IF t \in DOMAIN timers THEN MapDelete(timers, t) ELSE timers

\* the function that debounce returns, called with args
debounced(D, args, clock) ==
  LET cleared == clearTimeout(D.timers, D.t)
      id      == D.t + 1
  IN  [D EXCEPT
         !.t = id,
         !.timers = MapSet(cleared, id, [due |-> clock + D.delay, args |-> args]),
         !.log = Append(@, [type |-> "trigger", at |-> clock, args |-> args])]

\* the timer's callback: () => fn(...args)
timerFires(D, id, clock) ==
  [D EXCEPT
     !.timers = MapDelete(@, id),
     !.log = Append(@, [type |-> "run", at |-> clock, args |-> D.timers[id].args])]

\* the delay of the device-search listener and the default delay
Delays == {200, 300}
TriggerArgs == {"a", "b"}
Waits == {100, 200}

MaxTriggers == 3
MaxWaits == 3

Triggers(log) == { i \in DOMAIN log : log[i].type = "trigger" }

InitDebounce ==
  /\ now = 0
  /\ ticks = 0
  /\ clicks = 0
  /\ event = NoEvent
  /\ Is(NoWorld)
  /\ input = NoInput
  /\ output = NoOutput
  /\ \E delay \in Delays : deb = [NoDebounce EXCEPT !.delay = delay]

Trigger ==
  \E args \in TriggerArgs :
    /\ Cardinality(Triggers(deb.log)) < MaxTriggers
    /\ deb' = debounced(deb, args, now)
    /\ UNCHANGED <<progVars, input, output>>

\* a timer fires no earlier than it is due
TimerFires ==
  \E id \in DOMAIN deb.timers :
    /\ deb.timers[id].due <= now
    /\ deb' = timerFires(deb, id, now)
    /\ UNCHANGED <<progVars, input, output>>

Wait ==
  \E d \in Waits :
    /\ ticks < MaxWaits
    /\ now' = now + d
    /\ ticks' = ticks + 1
    /\ UNCHANGED <<cache, inflight, reqs, calls, settled, view, hyd, btn,
                   unhandled, reevalKeys, lastReeval, clicks, event, input,
                   output, deb>>

NextDebounce == Trigger \/ TimerFires \/ Wait

SpecDebounce == InitDebounce /\ [][NextDebounce]_vars

(***************************************************************************)
(* Properties of the fetch client.                                         *)
(***************************************************************************)
OutstandingFor(k) == {p \in Outstanding(St) : reqs[p].key = k}

\* C1: calls for one key made on a cache miss before the first of them
\* settles (the calls pending together) are answered by one promise, behind
\* which there is exactly one outstanding network request, and the calls
\* that settle with one promise settle together with one outcome.
C1_BurstSharesOneRequest ==
  /\ \A i \in DOMAIN calls :
       /\ calls[i].p \in DOMAIN reqs
       /\ OutstandingFor(calls[i].key) = {calls[i].p}
  /\ \A i, j \in DOMAIN calls :
       calls[i].key = calls[j].key => calls[i].p = calls[j].p
  /\ \A i, j \in DOMAIN settled :
       (settled[i].p # 0 /\ settled[i].p = settled[j].p) =>
         /\ settled[i].st = settled[j].st
         /\ settled[i].out = settled[j].out
  /\ \A i \in DOMAIN settled, j \in DOMAIN calls : settled[i].p # calls[j].p

C1_Witness ==
  \E i, j \in DOMAIN settled :
    /\ i # j
    /\ settled[i].p # 0
    /\ settled[i].p = settled[j].p
    /\ settled[i].st = "ok"

\* C2: in every state at most one network request started under a key is
\* outstanding.
C2_OneOutstandingPerKey ==
  \A p, q \in Outstanding(St) : reqs[p].key = reqs[q].key => p = q

C2_Witness ==
  \E p \in Outstanding(St) :
    /\ reqs[p].inval
    /\ Len(SelectSeq(calls, LAMBDA c : c.p = p /\ c.pre)) >= 1

\* C3: no call made after clearCachePrefix(p) for a key starting with p
\* resolves to a value of a network request issued before that invalidation.
C3_NoValueFromBeforeInvalidation ==
  \A i \in DOMAIN settled : ~(settled[i].st = "ok" /\ settled[i].pre)

\* C26: no cache entry holds the result of a network request that was
\* already in flight when its key was last invalidated.
C26_CacheFreeOfInvalidatedRequests ==
  \A k \in DOMAIN cache : ~cache[k].inval

\* C4: the in-flight map holds a key exactly while the network request
\* started under it is outstanding.
C4_InflightBracketsRequest ==
  /\ \A k \in DOMAIN inflight : inflight[k] \in OutstandingFor(k)
  /\ \A p \in Outstanding(St) :
       reqs[p].key \in DOMAIN inflight /\ inflight[reqs[p].key] = p

Unexpired(k) == k \in DOMAIN cache /\ now < cache[k].at + cache[k].ttl

\* C5: a call for a key cached at t0 with TTL T is answered from the cache,
\* with no network request, when now < t0 + T, and otherwise is not answered
\* from the cache but by an outstanding network request.
C5_TtlBoundary ==
  [][ /\ \A i \in DOMAIN settled' :
           settled'[i].p = 0 =>
             /\ Unexpired(settled'[i].key)
             /\ settled'[i].out = cache[settled'[i].key].value
             /\ reqs' = reqs
      /\ Len(calls') > Len(calls) =>
           LET c == calls'[Len(calls')] IN
             /\ ~Unexpired(c.key)
             /\ c.p \in Outstanding(St')
             /\ settled' = <<>>
    ]_vars

C5_Witness ==
  \E i \in DOMAIN calls :
    /\ calls[i].key \in DOMAIN cache
    /\ now = cache[calls[i].key].at + CACHE_TTL_health

\* C28: no key has an unexpired cache entry and an in-flight request at the
\* same time.
C28_NoUnexpiredEntryWhileInflight ==
  /\ \A k \in DOMAIN inflight : ~Unexpired(k) /\ ~CacheHit(St, k)
  /\ \A p \in Outstanding(St) : ~Unexpired(reqs[p].key)

\* an entry that has expired is in the cache while its key is fetched again
C28_Witness ==
  \E p \in Outstanding(St) :
    /\ reqs[p].key \in DOMAIN cache
    /\ reqs[p].key \in DOMAIN inflight
    /\ cache[reqs[p].key].expires <= now

C12_UncachedFetch ==
  [][ /\ \A p \in DOMAIN reqs :
           reqs[p].ttl = 0 =>
             /\ reqs[p].key \in DOMAIN inflight /\ inflight[reqs[p].key] = p
             /\ p \notin DOMAIN reqs' =>
                  /\ cache' = cache
                  /\ reqs[p].key \notin DOMAIN inflight'
      /\ \A p \in DOMAIN reqs' \ DOMAIN reqs :
           reqs'[p].ttl = 0 =>
             /\ cache' = cache
             /\ p \in Outstanding(St')
             /\ inflight'[reqs'[p].key] = p
    ]_vars

\* a request has just succeeded for a key whose expired entry is still the
\* one in the cache: the request was not a cacheable one
C12_Witness ==
  \E i \in DOMAIN settled :
    /\ settled[i].st = "ok"
    /\ settled[i].p # 0
    /\ settled[i].key \in DOMAIN cache
    /\ cache[settled[i].key].expires <= now

\* C14: a step starts a network request for a key only if the cache holds
\* no unexpired entry for it, a call that finds an unexpired entry gets its
\* value and starts nothing, and an unexpired entry goes or changes only by
\* an invalidation, which is no call and no response.
C14_RequestOnlyOnMiss ==
  [][ /\ \A p \in Outstanding(St') \ Outstanding(St) :
           ~Unexpired(reqs'[p].key)
      /\ \A i \in DOMAIN settled' :
           Unexpired(settled'[i].key) =>
             /\ settled'[i].p = 0
             /\ settled'[i].out = cache[settled'[i].key].value
             /\ Outstanding(St') = Outstanding(St)
      /\ \A k \in DOMAIN cache :
           (Unexpired(k) /\ now' = now /\ (k \notin DOMAIN cache' \/ cache'[k] # cache[k])) =>
             /\ calls' = calls
             /\ settled' = <<>>
             /\ Outstanding(St') = Outstanding(St)
    ]_vars

\* a second call within the TTL has just been answered from the cache, and
\* no request is outstanding
C14_Witness ==
  /\ ticks >= 1
  /\ Outstanding(St) = {}
  /\ \E i \in DOMAIN settled :
       /\ settled[i].p = 0
       /\ Unexpired(settled[i].key)
       /\ now > cache[settled[i].key].at

\* C15: when a request fails, every call that awaited it is rejected with
\* that failure, the cache is left as it was, no request is started in its
\* place, and its key leaves the in-flight map; and a call for a key that is
\* not in the in-flight map and has no unexpired entry starts a request.
C15_FailureIsTerminal ==
  [][ /\ \A i \in DOMAIN settled' :
           (settled'[i].st = "err" /\ settled'[i].p \in Outstanding(St)) =>
             LET p == settled'[i].p IN
             /\ \A j \in DOMAIN calls :
                  calls[j].p = p =>
                    \E m \in DOMAIN settled' :
                      settled'[m] = [calls[j] EXCEPT !.st = "err",
                                                     !.out = settled'[i].out]
             /\ \A j \in DOMAIN calls' : calls'[j].p # p
             /\ cache' = cache
             /\ Outstanding(St') = Outstanding(St) \ {p}
             /\ reqs[p].key \notin DOMAIN inflight'
      /\ Len(calls') > Len(calls) =>
           LET c == calls'[Len(calls')] IN
           c.key \notin DOMAIN inflight =>
             /\ c.p \notin DOMAIN reqs
             /\ c.p \in Outstanding(St')
    ]_vars

\* two calls have just been rejected with the failure of the one request
\* they awaited
C15_Witness ==
  \E i, j \in DOMAIN settled :
    /\ i # j
    /\ settled[i].p # 0
    /\ settled[i].p = settled[j].p
    /\ settled[i].st = "err"
    /\ settled[i].key \notin DOMAIN inflight
    /\ settled[i].key \notin DOMAIN cache

\* C19: a step changes the cache only if it is the success of a request
\* with ttl > 0, which sets the entry of that request's key to the value
\* received, expiring ttl from now, and touches no other entry; or if it is
\* an invalidation, which only removes entries.
C19_CacheWrittenOnlyByCommitOrInvalidation ==
  [][ cache' # cache =>
        \/ \E p \in Outstanding(St) :
             LET k == reqs[p].key IN
             /\ reqs[p].ttl > 0
             /\ p \notin DOMAIN reqs'
             /\ \E i \in DOMAIN settled' :
                  /\ settled'[i].p = p
                  /\ settled'[i].st = "ok"
                  /\ cache'[k].value = settled'[i].out
             /\ DOMAIN cache' = DOMAIN cache \cup {k}
             /\ cache'[k].expires = now + reqs[p].ttl
             /\ \A x \in DOMAIN cache \ {k} : cache'[x] = cache[x]
        \/ /\ calls' = calls
           /\ settled' = <<>>
           /\ inflight' = inflight
           /\ now' = now
           /\ DOMAIN cache' \subseteq DOMAIN cache
           /\ \A x \in DOMAIN cache' : cache'[x] = cache[x]
    ]_vars

\* a request has just failed for a key whose expired entry is still cached
C19_Witness ==
  \E i \in DOMAIN settled :
    /\ settled[i].st = "err"
    /\ settled[i].p # 0
    /\ settled[i].key \in DOMAIN cache
    /\ cache[settled[i].key].expires <= now

(***************************************************************************)
(* Properties of the customer page.                                        *)
(***************************************************************************)

\* C6: any two invocations of triggerReeval use distinct cache keys, so that
\* none can be answered by the request or the cache entry of another.
C6_ReevalKeysDistinct ==
  \A i, j \in DOMAIN reevalKeys : i # j => reevalKeys[i] # reevalKeys[j]

\* C7: a read of the customer's health made after the re-evaluation has
\* succeeded is never answered by a promise created, or a value cached,
\* before that success.
C7_ReadsAfterMutationAreFresh ==
  \A i \in DOMAIN settled : ~(settled[i].st = "ok" /\ settled[i].stale)

\* the load behind what view v shows ended with data
Loaded(v) == view[v].from \in Payloads

\* C8: the activation of a tab whose view is already loaded leaves the view
\* as it is and calls no loader: it does not put the view back into Loading
\* and starts no request.
C8_LoadedTabNotReloaded ==
  [][ \A v \in TabViews :
        (event'.type = "tab" /\ event'.arg = v /\ Loaded(v)) =>
          /\ view'[v] = view[v]
          /\ calls' = calls
          /\ reqs' = reqs
    ]_vars

\* C9: no failure of a load escapes as an unhandled rejection, and once the
\* page's primary load has ended, the loads of its secondary views (devices,
\* alerts) have been started.
C9_FailuresStayLocal ==
  /\ ~unhandled
  /\ hyd = EmptyMap =>
       \A v \in {"devices", "alerts"} : view[v].display # "Unactivated"

\* the resources that the refresh button invalidates
RefreshResources == {"health:", "history:", "licenses:", "devices:", "alerts:"}

\* the handler of the refresh button has invalidated, and none of the
\* fetches made since (those of its hydrateCustomerPage, which are the first)
\* has completed
RefreshedAndNoneCompleted ==
  \E h \in DOMAIN hyd : hyd[h].by = "refresh" /\ hyd[h].got = 0

\* C13: from the invalidation by the handler of the refresh button until a
\* fetch started after it completes, the cache holds none of the five keys
\* of the customer.
C13_RefreshedKeysAbsent ==
  RefreshedAndNoneCompleted =>
    \A r \in RefreshResources : CacheKeyOf(r, PageKey) \notin DOMAIN cache

\* the keys of the three resources that hydrateCustomerPage awaits
PrimaryKeys ==
  {CacheKeyOf(r, PageKey) : r \in {"health:", "history:", "licenses:"}}

\* C16: while the page's load awaits, each of the three resources is
\* requested or already obtained, and the page shows the primary render and
\* the report preview made of the three only when all three requests have
\* succeeded: none is outstanding and each has committed its value.
C16_RenderAfterAllThree ==
  /\ hyd # EmptyMap =>
       \A k \in PrimaryKeys : k \in DOMAIN inflight \/ k \in DOMAIN cache
  /\ \A v \in {"primary", "reportPreview"} :
       view[v].display # "Unactivated" =>
         /\ hyd = EmptyMap
         /\ \A k \in PrimaryKeys : k \in DOMAIN cache /\ k \notin DOMAIN inflight

\* two of the three have succeeded, the third is outstanding, nothing shown
C16_Witness ==
  /\ \E h \in DOMAIN hyd : hyd[h].got = 2
  /\ view["primary"].display = "Unactivated"
  /\ Cardinality(PrimaryKeys \cap DOMAIN cache) = 2

\* C17: the secondary views (devices, alerts, report preview) are started
\* only once the primary render is shown; when it is shown,
\* hydrateCustomerPage has completed, whatever the state of the devices and
\* alerts requests; and the primary render stays.
C17_SecondaryLoadsNotAwaited ==
  [][ /\ \A v \in {"devices", "alerts", "reportPreview"} :
           view'[v].display # "Unactivated" => view'["primary"].display = "Rendered"
      /\ view'["primary"].display = "Rendered" => hyd' = EmptyMap
      /\ view["primary"].display = "Rendered" => view'["primary"] = view["primary"]
    ]_vars

\* hydrateCustomerPage has completed with the devices request outstanding
\* and the alerts request failed
C17_Witness ==
  /\ view["primary"].display = "Rendered"
  /\ hyd = EmptyMap
  /\ view["devices"].display = "Loading"
  /\ view["alerts"].from = "http500"

\* what a view shows for a successful but empty result, or in the same words
NoDataDisplays == {"NoMatchingDevices", "NoAlertsRecorded", "NoHealthAlerts"}

\* what a view shows for a 404
NotAvailableDisplays == {"DevicesEndpointNotAvailable", "AlertsEndpointNotAvailable"}

\* C10: a view whose load failed is not left in Loading, does not show the
\* state of an empty result, and shows the state of a 404 for a 404 only.
C10_FailureStatesDistinguished ==
  \A v \in Views :
    /\ view[v].from \in PageFailures =>
         view[v].display \notin NoDataDisplays \cup {"Loading"}
    /\ view[v].display \in NotAvailableDisplays <=> 
         (view[v].from = "http404" /\ v \in {"devices", "alerts"})

\* C25: triggerReeval makes the fallback request exactly when the POST has
\* been rejected, whatever the error, has one request outstanding until it
\* settles and none after, so two requests at most; it resolves with
\* the POST's result when the POST succeeds, and otherwise settles as the
\* fallback does: resolved with its result, or rejected with its error.
C25_ReevalFallsBackOnce ==
  LET r == lastReeval IN
  /\ r.fallback # "" <=> r.post \in Failures
  /\ r.post \in Payloads => (r.st = "ok" /\ r.out = r.post)
  /\ (r.post \in Failures /\ r.fallback \in Payloads) =>
       (r.st = "ok" /\ r.out = r.fallback)
  /\ (r.post \in Failures /\ r.fallback \in Failures) =>
       (r.st = "err" /\ r.out = r.fallback)
  /\ r.st \in {"ok", "err"} =>
       \/ r.post \in Payloads
       \/ r.post \in Failures /\ r.fallback \in Payloads \cup Failures
  /\ Cardinality({p \in DOMAIN reqs :
                    Head(reqs[p].key) \in {"reeval:", "health_force:"}})
       = IF r.st = Pending THEN 1 ELSE 0

\* the POST failed in one way and the fallback in another: the invocation
\* was rejected with the fallback's error
C25_Witness ==
  /\ lastReeval.post = "netfail"
  /\ lastReeval.fallback = "http500"
  /\ lastReeval.st = "err"
  /\ lastReeval.out = "http500"

\* the click handler of btnReeval has started and has not ended: it awaits
\* triggerReeval, or hydrateCustomerPage
ReevalAwaitingRequest ==
  { i \in DOMAIN calls : calls[i].who.fn \in {"triggerReeval", "triggerReevalFallback"} }

ReevalAwaitingHydration == { h \in DOMAIN hyd : hyd[h].by = "reeval" }

\* C30: the re-evaluation button is disabled exactly while its click handler
\* is running, whichever way the handler ends, and at most one handler is
\* running.
C30_ReevalButtonBracketsHandler ==
  /\ btn.reeval <=> (ReevalAwaitingRequest # {} \/ ReevalAwaitingHydration # {})
  /\ Cardinality(ReevalAwaitingRequest) + Cardinality(ReevalAwaitingHydration) <= 1

\* the re-evaluation succeeded, the hydration that followed failed, and the
\* button is enabled again
C30_Witness ==
  /\ clicks = 1
  /\ lastReeval.st = "ok"
  /\ unhandled
  /\ ~btn.reeval
  /\ ReevalAwaitingHydration = {}

\* the three required loads of the report have resolved and both optional
\* loads have settled
ReportDone ==
  /\ hyd = EmptyMap
  /\ ~unhandled
  /\ view["report"].display # "MissingCustomer"

\* C24: on the report page a failure of the devices or of the alerts load
\* is never propagated: the only rejection is that of a required load, and
\* once both optional loads have settled the report is rendered, with the
\* absence marker in the section of each optional load that failed.
C24_OptionalLoadsNeverFail ==
  /\ unhandled => view["report"].from \in Failures
  /\ ReportDone =>
       /\ view["report"].display = "Rendered"
       /\ view["reportDevices"].display =
            IF view["reportDevices"].from \in Failures
            THEN "DevicesApiNotAvailable" ELSE "DevicesSummary"
       /\ view["reportAlerts"].display \in
            IF view["reportAlerts"].from \in Failures
            THEN {"AlertsApiNotAvailable"} ELSE {"AlertsList", "NoAlertsRecorded"}

\* both optional loads failed, each in its way, and the report is rendered
C24_Witness ==
  /\ ReportDone
  /\ view["report"].display = "Rendered"
  /\ view["reportDevices"] = [display |-> "DevicesApiNotAvailable", from |-> "netfail"]
  /\ view["reportAlerts"] = [display |-> "AlertsApiNotAvailable", from |-> "http404"]

(***************************************************************************)
(* Properties of the functions studied on their own.                       *)
(***************************************************************************)

C18_PrefixRemovedRestKept ==
  output # NoOutput =>
    \A k \in DOMAIN input[1] :
      IF StartsWith(k, input[2])
      THEN k \notin DOMAIN output[1]
      ELSE k \in DOMAIN output[1] /\ output[1][k] = input[1][k]

\* a prefix that matched two of the cached keys and not a third
C18_Witness ==
  /\ output # NoOutput
  /\ input[2] = <<"health:", "a">>
  /\ {<<"health:", "a">>, <<"health:", "a", "b">>, <<"health:">>} \subseteq DOMAIN input[1]
  /\ DOMAIN output[1] = DOMAIN input[1] \ {<<"health:", "a">>, <<"health:", "a", "b">>}

\* C20: two loader calls get the same cache key exactly when they are for
\* the same resource kind and the same customer identifier.
C20_LoaderKeysInjective ==
  output # NoOutput =>
    (output[1][1] = output[1][2] <=> input[1] = input[2])

\* two customers whose identifiers are made of the same characters in
\* another order, among them the colon that ends a prefix
C20_Witness ==
  /\ output # NoOutput
  /\ input[1] = <<"alerts", <<"s", ":">>>>
  /\ input[2] = <<"alerts", <<":", "s">>>>
  /\ output[1][1] # output[1][2]

\* the age of the row's last-seen value is over 48 hours
OlderThanOutage(row) ==
  /\ row.lastSeen # <<>>
  /\ row.lastSeen[1].kind = "date"
  /\ now - row.lastSeen[1].time > OutageHours * MsPerHour

\* C21: the root-cause label of a row: registration drift without a
\* last-seen value; for an offline row the outage label when last seen over
\* 48 hours ago and the intermittent label otherwise; the network-drop label
\* for any other status that is not online; the placeholder for online.
C21_RootCauseLabel ==
  output # NoOutput =>
    LET row == output[1] IN
    row.rootCause =
      IF row.lastSeen = <<>> THEN "Cloud inventory / registration drift"
      ELSE IF row.status = s_offline /\ OlderThanOutage(row)
      THEN "Power / site outage likely"
      ELSE IF row.status = s_offline THEN "Network / power intermittent"
      ELSE IF row.status # s_online THEN "LAN / network drop likely"
      ELSE "-"

\* the field that the status is derived from: the first present one
RawStatus(d) == FirstTruthy(<<d.connectionStatus, d.status>>)

\* C22: the status of a row: offline when the raw status contains offline
\* or disconnected in any case; else online when it contains online or
\* connected; else the raw status verbatim; unknown without a raw status.
C22_StatusNormalized ==
  output # NoOutput =>
    LET raw == RawStatus(input[1])
        low == toLowerCase(IF raw = <<>> THEN <<>> ELSE raw[1])
    IN  output[1].status =
          IF raw = <<>> THEN s_unknown
          ELSE IF includes(low, s_offline) \/ includes(low, s_disconnected) THEN s_offline
          ELSE IF includes(low, s_online) \/ includes(low, s_connected) THEN s_online
          ELSE raw[1]

\* C23: every run of the debounced function comes right after a trigger,
\* with no trigger or run in between, at least the delay later and with
\* that trigger's arguments.
C23_DebounceRunsLastTriggerAfterQuiet ==
  \A i \in DOMAIN deb.log :
    deb.log[i].type = "run" =>
      /\ i > 1
      /\ deb.log[i - 1].type = "trigger"
      /\ deb.log[i].args = deb.log[i - 1].args
      /\ deb.log[i].at - deb.log[i - 1].at >= deb.delay

\* two triggers within the delay, then one run, with the second's arguments
C23_Witness ==
  /\ Len(deb.log) = 3
  /\ deb.log[1].type = "trigger" /\ deb.log[1].args = "a"
  /\ deb.log[2].type = "trigger" /\ deb.log[2].args = "b"
  /\ deb.log[2].at - deb.log[1].at < deb.delay
  /\ deb.log[3].type = "run" /\ deb.log[3].args = "b"
  /\ deb.timers = EmptyMap

\* C27: the refresh, re-evaluation and alerts-refresh handlers of the page
\* of customer K leave every cache entry of every other customer as it was.
C27_OtherCustomersUntouched ==
  output # NoOutput =>
    \A k \in DOMAIN input[2] :
      Tail(k) # input[1] =>
        k \in DOMAIN output[1] /\ output[1][k] = input[2][k]

====
